---- MODULE Spec2Model ----
(***************************************************************************)
(* Task decomposer (agents/task-decomposer/scripts/decompose.py).          *)
(*                                                                         *)
(* A text is a sequence of one-character strings.  A Plan (a Python dict)  *)
(* is a function from key names to values; Python's None is the model      *)
(* value None.  main() is a state machine: one action per call it makes.   *)
(***************************************************************************)
EXTENDS Integers, Sequences, FiniteSets, TLC

\* Python values that may be None: None itself, or a wrapped string
None == [none |-> TRUE]
Str(s) == [str |-> s]

\* truth value of a str-or-None value (None and "" are falsy)
Truthy(v) == v # None /\ Len(v.str) > 0

\* Python's `a or b`
Or(a, b) == IF Truthy(a) THEN a ELSE b

\* ------------------------------------------------------------------------
\* Bounds of the model
\* ------------------------------------------------------------------------
\* number of pieces a free-form task text is assembled from
MaxPieces == 2
\* number of segments of a chained task text (segment, separator, segment...)
MaxChain == 7
\* number of tokens of a provider's response text
MaxRespLen == 3

\* ------------------------------------------------------------------------
\* Text primitives: str.lower, str.strip, the substring test, \s of re
\* ------------------------------------------------------------------------
WS == {" ", "\t"}

UpperToLower ==
    ("A" :> "a") @@ ("B" :> "b") @@ ("C" :> "c") @@ ("D" :> "d") @@
    ("E" :> "e") @@ ("F" :> "f") @@ ("G" :> "g") @@ ("H" :> "h") @@
    ("I" :> "i") @@ ("J" :> "j") @@ ("K" :> "k") @@ ("L" :> "l") @@
    ("M" :> "m") @@ ("N" :> "n") @@ ("O" :> "o") @@ ("P" :> "p") @@
    ("Q" :> "q") @@ ("R" :> "r") @@ ("S" :> "s") @@ ("T" :> "t") @@
    ("U" :> "u") @@ ("V" :> "v") @@ ("W" :> "w") @@ ("X" :> "x") @@
    ("Y" :> "y") @@ ("Z" :> "z")

Lower(text) ==
    [i \in 1..Len(text) |->
        IF text[i] \in DOMAIN UpperToLower THEN UpperToLower[text[i]]
                                           ELSE text[i]]

\* word occurs in text starting at position i
HasAt(text, i, word) ==
    /\ i >= 1
    /\ i + Len(word) - 1 <= Len(text)
    /\ SubSeq(text, i, i + Len(word) - 1) = word

\* Python's `word in text`
Contains(text, word) ==
    \E i \in 1..(Len(text) + 1) : HasAt(text, i, word)

\* first position >= i that is past the end or holds a non-space
RECURSIVE SkipWs(_, _)
SkipWs(text, i) ==
    IF i <= Len(text) /\ text[i] \in WS THEN SkipWs(text, i + 1) ELSE i

\* last position <= j that is before the start or holds a non-space
RECURSIVE SkipWsBack(_, _)
SkipWsBack(text, j) ==
    IF j >= 1 /\ text[j] \in WS THEN SkipWsBack(text, j - 1) ELSE j

Strip(text) == SubSeq(text, SkipWs(text, 1), SkipWsBack(text, Len(text)))

\* ------------------------------------------------------------------------
\* The splitter: re.split(r',\s*(?:and|then|plus)\s*|\s+and\s+|\s+then\s+')
\* ------------------------------------------------------------------------
WordAnd  == <<"a", "n", "d">>
WordThen == <<"t", "h", "e", "n">>
WordPlus == <<"p", "l", "u", "s">>

WordWith == <<"w", "i", "t", "h">>

\* (?:and|then|plus) at position i: the position after the word, 0 if none
ConnectiveAtWith(text, i) ==
    IF HasAt(text, i, WordAnd) THEN i + Len(WordAnd)
    ELSE IF HasAt(text, i, WordThen) THEN i + Len(WordThen)
    ELSE IF HasAt(text, i, WordWith) THEN i + Len(WordWith)
    ELSE IF HasAt(text, i, WordPlus) THEN i + Len(WordPlus)
    ELSE 0

ConnectiveAt(text, i) ==
    IF HasAt(text, i, WordAnd) THEN i + Len(WordAnd)
    ELSE IF HasAt(text, i, WordThen) THEN i + Len(WordThen)
    ELSE IF HasAt(text, i, WordPlus) THEN i + Len(WordPlus)
    ELSE 0

\* ,\s*(?:and|then|plus)\s*  at position i: end of the match (exclusive), 0 if none
MatchCommaAny(text, i) ==
    IF i <= Len(text) /\ text[i] = ","
    THEN LET e == ConnectiveAt(text, SkipWs(text, i + 1))
         IN  IF e = 0 THEN SkipWs(text, i + 1) ELSE SkipWs(text, e)
    ELSE 0

MatchComma(text, i) ==
    IF i <= Len(text) /\ text[i] = ","
    THEN LET e == ConnectiveAt(text, SkipWs(text, i + 1))
         IN  IF e = 0 THEN 0 ELSE SkipWs(text, e)
    ELSE 0

\* \s+word\s+  at position i: end of the match (exclusive), 0 if none
MatchBare(text, i, word) ==
    IF i <= Len(text) /\ text[i] \in WS
    THEN LET j == SkipWs(text, i)
             k == j + Len(word)
         IN  IF HasAt(text, j, word) /\ k <= Len(text) /\ text[k] \in WS
             THEN SkipWs(text, k)
             ELSE 0
    ELSE 0

\* the whole pattern at position i, alternatives in the pattern's order
MatchAt(text, i) ==
    IF MatchComma(text, i) # 0 THEN MatchComma(text, i)
    ELSE IF MatchBare(text, i, WordAnd) # 0 THEN MatchBare(text, i, WordAnd)
    ELSE MatchBare(text, i, WordThen)

\* re.split scanning from position i, the current piece starting at s
RECURSIVE SplitFrom(_, _, _)
SplitFrom(text, i, s) ==
    IF i > Len(text) THEN << SubSeq(text, s, Len(text)) >>
    ELSE LET e == MatchAt(text, i)
         IN  IF e # 0
             THEN << SubSeq(text, s, i - 1) >> \o SplitFrom(text, e, e)
             ELSE SplitFrom(text, i + 1, s)

ReSplit(text) == SplitFrom(text, 1, 1)

\* a stripped piece is kept when len(p.strip()) > 5
UsableFromFive(p) == Len(Strip(p)) >= 5

Usable(p) == Len(Strip(p)) > 5

\* parts = [p.strip() for p in parts if len(p.strip()) > 5]
RECURSIVE KeepUsable(_)
KeepUsable(pieces) ==
    IF pieces = <<>> THEN <<>>
    ELSE IF Usable(Head(pieces))
         THEN << Strip(Head(pieces)) >> \o KeepUsable(Tail(pieces))
         ELSE KeepUsable(Tail(pieces))

Parts(text) == KeepUsable(ReSplit(text))

\* ------------------------------------------------------------------------
\* The classifier: get_domain over the keyword table, in declaration order
\* ------------------------------------------------------------------------
domains ==
    << [domain |-> "trading",
        keywords |-> << <<"t", "r", "a", "d", "e">>,
                        <<"b", "u", "y">>,
                        <<"s", "e", "l", "l">>,
                        <<"p", "r", "i", "c", "e">>,
                        <<"m", "a", "r", "k", "e", "t">>,
                        <<"p", "o", "r", "t", "f", "o", "l", "i", "o">> >>],
       [domain |-> "coding",
        keywords |-> << <<"c", "o", "d", "e">>,
                        <<"s", "c", "r", "i", "p", "t">>,
                        <<"f", "u", "n", "c", "t", "i", "o", "n">>,
                        <<"a", "p", "i">>,
                        <<"i", "m", "p", "l", "e", "m", "e", "n", "t">>,
                        <<"b", "u", "i", "l", "d">> >>],
       [domain |-> "research",
        keywords |-> << <<"r", "e", "s", "e", "a", "r", "c", "h">>,
                        <<"f", "i", "n", "d">>,
                        <<"s", "e", "a", "r", "c", "h">>,
                        <<"l", "e", "a", "r", "n">>,
                        <<"a", "n", "a", "l", "y", "z", "e">> >>],
       [domain |-> "writing",
        keywords |-> << <<"w", "r", "i", "t", "e">>,
                        <<"d", "o", "c", "u", "m", "e", "n", "t">>,
                        <<"d", "r", "a", "f", "t">>,
                        <<"c", "o", "m", "p", "o", "s", "e">> >>],
       [domain |-> "devops",
        keywords |-> << <<"d", "e", "p", "l", "o", "y">>,
                        <<"s", "e", "r", "v", "e", "r">>,
                        <<"m", "o", "n", "i", "t", "o", "r">>,
                        <<"b", "a", "c", "k", "u", "p">>,
                        <<"c", "o", "n", "f", "i", "g">> >>],
       [domain |-> "data",
        keywords |-> << <<"d", "a", "t", "a">>,
                        <<"d", "a", "t", "a", "b", "a", "s", "e">>,
                        <<"q", "u", "e", "r", "y">>,
                        <<"f", "e", "t", "c", "h">>,
                        <<"s", "t", "o", "r", "e">> >>] >>

\* any(kw in text_lower for kw in keywords)
AnyKeyword(text_lower, keywords) ==
    \E k \in 1..Len(keywords) : Contains(text_lower, keywords[k])

RECURSIVE DomainFrom(_, _)
DomainFrom(text_lower, d) ==
    IF d > Len(domains) THEN "unknown"
    ELSE IF AnyKeyword(text_lower, domains[d].keywords) THEN domains[d].domain
    ELSE DomainFrom(text_lower, d + 1)

get_domainCaseSensitive(text) == DomainFrom(text, 1)

get_domain(text) == DomainFrom(Lower(text), 1)

\* ------------------------------------------------------------------------
\* The synthesizer: rule_based_decompose
\* ------------------------------------------------------------------------
PlanPrefix  == <<"P", "l", "a", "n", " ", "a", "p", "p", "r", "o", "a", "c",
                 "h", " ", "f", "o", "r", ":", " ">>
ExecuteText == <<"E", "x", "e", "c", "u", "t", "e", " ", "t", "h", "e", " ",
                 "p", "l", "a", "n">>
VerifyText  == <<"T", "e", "s", "t", " ", "a", "n", "d", " ", "v", "e", "r",
                 "i", "f", "y", " ", "r", "e", "s", "u", "l", "t", "s">>

\* f"task_{n}"
TaskIdNoIndex(n) == "task_"

TaskId(n) == "task_" \o ToString(n)

\* the dict appended for enumerate index i (from 0) and its part
SegmentSubtaskSelfDep(i, part) ==
    [id                |-> TaskId(i + 1),
     description       |-> part,
     domain            |-> get_domain(part),
     estimated_minutes |-> 15,
     dependencies      |-> IF i > 0 THEN << TaskId(i + 1) >> ELSE <<>>,
     can_parallelize   |-> (i = 0)]

SegmentSubtaskAllParallel(i, part) ==
    [id                |-> TaskId(i + 1),
     description       |-> part,
     domain            |-> get_domain(part),
     estimated_minutes |-> 15,
     dependencies      |-> IF i > 0 THEN << TaskId(i) >> ELSE <<>>,
     can_parallelize   |-> TRUE]

SegmentSubtask(i, part) ==
    [id                |-> TaskId(i + 1),
     description       |-> part,
     domain            |-> get_domain(part),
     estimated_minutes |-> 15,
     dependencies      |-> IF i > 0 THEN << TaskId(i) >> ELSE <<>>,
     can_parallelize   |-> (i = 0)]

SegmentSubtasksDropLast(parts) ==
    [k \in 1..(Len(parts) - 1) |-> SegmentSubtask(k - 1, parts[k])]

SegmentSubtasks(parts) ==
    [k \in 1..Len(parts) |-> SegmentSubtask(k - 1, parts[k])]

TemplateSubtasksVerifyFirst(task_text) ==
    << [id                |-> "verify",
        description       |-> VerifyText,
        domain            |-> "devops",
        estimated_minutes |-> 10,
        dependencies      |-> <<>>,
        can_parallelize   |-> TRUE],
       [id                |-> "plan",
        description       |-> PlanPrefix \o task_text,
        domain            |-> "research",
        estimated_minutes |-> 10,
        dependencies      |-> << "verify" >>,
        can_parallelize   |-> FALSE],
       [id                |-> "execute",
        description       |-> ExecuteText,
        domain            |-> get_domain(task_text),
        estimated_minutes |-> 30,
        dependencies      |-> << "plan" >>,
        can_parallelize   |-> FALSE] >>

TemplateSubtasksNoPlan(task_text) ==
    IF get_domain(task_text) = "research"
    THEN TemplateSubtasksVerifyFirst(task_text)
    ELSE << [id                |-> "execute",
             description       |-> ExecuteText,
             domain            |-> get_domain(task_text),
             estimated_minutes |-> 30,
             dependencies      |-> <<>>,
             can_parallelize   |-> FALSE],
            [id                |-> "verify",
             description       |-> VerifyText,
             domain            |-> "devops",
             estimated_minutes |-> 10,
             dependencies      |-> << "execute" >>,
             can_parallelize   |-> FALSE] >>

TemplateSubtasksShortEstimates(task_text) ==
    << [id                |-> "plan",
        description       |-> PlanPrefix \o task_text,
        domain            |-> "research",
        estimated_minutes |-> 10,
        dependencies      |-> <<>>,
        can_parallelize   |-> TRUE],
       [id                |-> "execute",
        description       |-> ExecuteText,
        domain            |-> get_domain(task_text),
        estimated_minutes |-> 15,
        dependencies      |-> << "plan" >>,
        can_parallelize   |-> FALSE],
       [id                |-> "verify",
        description       |-> VerifyText,
        domain            |-> "devops",
        estimated_minutes |-> 5,
        dependencies      |-> << "execute" >>,
        can_parallelize   |-> FALSE] >>

TemplateSubtasksSegmentDomain(task_text) ==
    LET parts == Parts(task_text)
        basis == IF Len(parts) = 1 THEN parts[1] ELSE task_text
    IN  << [id                |-> "plan",
            description       |-> PlanPrefix \o task_text,
            domain            |-> "research",
            estimated_minutes |-> 10,
            dependencies      |-> <<>>,
            can_parallelize   |-> TRUE],
           [id                |-> "execute",
            description       |-> ExecuteText,
            domain            |-> get_domain(basis),
            estimated_minutes |-> 30,
            dependencies      |-> << "plan" >>,
            can_parallelize   |-> FALSE],
           [id                |-> "verify",
            description       |-> VerifyText,
            domain            |-> "devops",
            estimated_minutes |-> 10,
            dependencies      |-> << "execute" >>,
            can_parallelize   |-> FALSE] >>

TemplateSubtasks(task_text) ==
    << [id                |-> "plan",
        description       |-> PlanPrefix \o task_text,
        domain            |-> "research",
        estimated_minutes |-> 10,
        dependencies      |-> <<>>,
        can_parallelize   |-> TRUE],
       [id                |-> "execute",
        description       |-> ExecuteText,
        domain            |-> get_domain(task_text),
        estimated_minutes |-> 30,
        dependencies      |-> << "plan" >>,
        can_parallelize   |-> FALSE],
       [id                |-> "verify",
        description       |-> VerifyText,
        domain            |-> "devops",
        estimated_minutes |-> 10,
        dependencies      |-> << "execute" >>,
        can_parallelize   |-> FALSE] >>

\* if len(subtasks) <= 1: the template replaces the list
UseTemplateNever(subtasks) == FALSE

UseTemplateOnlyEmpty(subtasks) == Len(subtasks) < 1

UseTemplate(subtasks) == Len(subtasks) <= 1

Subtasks(task_text) ==
    LET perSegment == SegmentSubtasks(Parts(task_text))
    IN  IF UseTemplate(perSegment) THEN TemplateSubtasks(task_text)
                                   ELSE perSegment

\* "simple" if n <= 3 else "medium" if n <= 6 else "complex"
ComplexityShifted(n) ==
    IF n <= 4 THEN "simple" ELSE IF n <= 7 THEN "medium" ELSE "complex"

Complexity(n) ==
    IF n <= 3 THEN "simple" ELSE IF n <= 6 THEN "medium" ELSE "complex"

\* sum(s["estimated_minutes"] for s in subtasks)
RECURSIVE SumMinutesSkipFirst(_)
SumMinutesSkipFirst(subtasks) ==
    IF Len(subtasks) <= 1 THEN 0
    ELSE subtasks[Len(subtasks)].estimated_minutes
         + SumMinutesSkipFirst(SubSeq(subtasks, 1, Len(subtasks) - 1))

RECURSIVE SumMinutes(_)
SumMinutes(subtasks) ==
    IF subtasks = <<>> THEN 0
    ELSE Head(subtasks).estimated_minutes + SumMinutes(Tail(subtasks))

Recommendation ==
    "Rule-based decomposition - consider using --smart for better results"

rule_based_decomposeByCount(task_text) ==
    LET subtasks == Subtasks(task_text)
        n        == Len(subtasks)
    IN  [original_task           |-> task_text,
         subtasks                |-> subtasks,
         complexity              |-> Complexity(n),
         total_estimated_minutes |-> SumMinutes(subtasks),
         recommendation          |-> IF n <= 2 THEN "execute directly"
                                     ELSE IF n <= 5 THEN "execute sequentially"
                                     ELSE "consider parallel sub-agents",
         method                  |-> "rule-based"]

rule_based_decompose(task_text) ==
    LET subtasks == Subtasks(task_text)
    IN  [original_task           |-> task_text,
         subtasks                |-> subtasks,
         complexity              |-> Complexity(Len(subtasks)),
         total_estimated_minutes |-> SumMinutes(subtasks),
         recommendation          |-> Recommendation,
         method                  |-> "rule-based"]

\* ------------------------------------------------------------------------
\* A provider's response text, as a sequence of tokens: braces, prose, and
\* members ("key": value) of a JSON object.  A member is one token: braces
\* inside a member's value are not represented.
\* ------------------------------------------------------------------------
MemberTokens ==
    {"m_method", "m_task", "m_subtasks", "m_badsubtasks", "m_critical",
     "m_risks"}
Tokens == {"{", "}", "txt"} \cup MemberTokens

MemberKey(tok) ==
    CASE tok = "m_method"      -> "method"
      [] tok = "m_task"        -> "original_task"
      [] tok = "m_subtasks"    -> "subtasks"
      [] tok = "m_badsubtasks" -> "subtasks"
      [] tok = "m_critical"    -> "critical_path"
      [] tok = "m_risks"       -> "risks"

\* the value a member carries: a provider's own method and original_task, a
\* subtasks list of the prompt's shape, a subtasks list lacking id/description
MemberValue(tok) ==
    CASE tok = "m_method"      -> "rule-based"
      [] tok = "m_task"        -> <<"x">>
      [] tok = "m_subtasks"    ->
            << [id |-> "s1", description |-> <<"d">>, domain |-> "coding",
                estimated_minutes |-> 20, dependencies |-> <<>>,
                can_parallelize |-> TRUE, tools_needed |-> << "git" >>] >>
      [] tok = "m_badsubtasks" -> << [domain |-> "coding"] >>
      [] tok = "m_critical"    -> << "s1" >>
      [] tok = "m_risks"       -> << "rate limits", "scope" >>

\* positions of a token in a response
Positions(resp, tok) == {i \in 1..Len(resp) : resp[i] = tok}

Min(S) == CHOOSE x \in S : \A y \in S : x <= y
Max(S) == CHOOSE x \in S : \A y \in S : x >= y

\* re.search(r'\{[\s\S]*\}', response_text).group(): from the first "{" to
\* the last "}" after it; <<>> when there is no match
JsonMatch(resp) ==
    LET opens  == Positions(resp, "{")
        closes == Positions(resp, "}")
    IN  IF opens # {} /\ closes # {} /\ Max(closes) > Min(opens)
        THEN SubSeq(resp, Min(opens), Max(closes))
        ELSE <<>>

\* json.loads accepts the text: one object, members only between its braces
JsonValid(s) ==
    /\ Len(s) >= 2
    /\ s[1] = "{"
    /\ s[Len(s)] = "}"
    /\ \A i \in 2..(Len(s) - 1) : s[i] \in MemberTokens

\* the dict json.loads builds; a repeated key keeps its last value
RECURSIVE LoadMembers(_)
LoadMembers(members) ==
    IF members = <<>> THEN <<>>
    ELSE LET last == members[Len(members)]
         IN  (MemberKey(last) :> MemberValue(last))
                @@ LoadMembers(SubSeq(members, 1, Len(members) - 1))

JsonLoads(s) == LoadMembers(SubSeq(s, 2, Len(s) - 1))

\* d[k] = v
SetItem(d, k, v) == (k :> v) @@ d

\* result["original_task"] = task_text; result["method"] = method
TagKeepPayload(payload, task_text, method) ==
    payload @@ ("original_task" :> task_text) @@ ("method" :> method)

TagKeepTask(payload, task_text, method) ==
    SetItem(payload @@ ("original_task" :> task_text), "method", method)

TagSynthesize(payload, task_text, method) ==
    SetItem(SetItem(payload @@ ("subtasks" :> <<>>),
                    "original_task", task_text), "method", method)

Tag(payload, task_text, method) ==
    SetItem(SetItem(payload, "original_task", task_text), "method", method)

\* what a provider function hands back: (result, error), whether the provider
\* was called, and whether an exception left the function
Return(result, error, called) ==
    [result |-> result, error |-> error, called |-> called, raised |-> FALSE]

\* what the provider call does: raise an Exception carrying a message, raise
\* a BaseException that is not an Exception, or answer with a text
Responses == UNION {[1..k -> Tokens] : k \in 0..MaxRespLen}

Outcomes ==
    [kind : {"raise"}, msg : {"", "Connection error."}, text : {<<>>}]
    \cup [kind : {"interrupt"}, msg : {""}, text : {<<>>}]
    \cup [kind : {"text"}, msg : {""}, text : Responses]

\* the try block shared by both providers (their bodies differ in the client
\* and in the method tag only)
CallProviderLenient(task_text, method, outcome) ==
    CASE outcome.kind = "interrupt" ->
            [result |-> None, error |-> None, called |-> TRUE, raised |-> TRUE]
      [] outcome.kind = "raise" ->
            Return(None, Str(outcome.msg), TRUE)
      [] outcome.kind = "text" ->
            LET json_match == JsonMatch(outcome.text)
            IN  IF json_match # <<>> /\ JsonValid(json_match)
                THEN Return(Tag(JsonLoads(json_match), task_text, method),
                            None, TRUE)
                ELSE Return(Tag(<<>>, task_text, method), None, TRUE)

CallProviderCatchAll(task_text, method, outcome) ==
    CASE outcome.kind \in {"interrupt", "raise"} ->
            Return(None, Str(outcome.msg), TRUE)
      [] outcome.kind = "text" ->
            LET json_match == JsonMatch(outcome.text)
            IN  IF json_match # <<>>
                THEN IF JsonValid(json_match)
                     THEN Return(Tag(JsonLoads(json_match), task_text, method),
                                 None, TRUE)
                     ELSE Return(None, Str("Expecting value"), TRUE)
                ELSE Return(None, Str("Could not parse JSON from response"), TRUE)

CallProvider(task_text, method, outcome) ==
    CASE outcome.kind = "interrupt" ->
            [result |-> None, error |-> None, called |-> TRUE, raised |-> TRUE]
      [] outcome.kind = "raise" ->
            Return(None, Str(outcome.msg), TRUE)
      [] outcome.kind = "text" ->
            LET json_match == JsonMatch(outcome.text)
            IN  IF json_match # <<>>
                THEN IF JsonValid(json_match)
                     THEN Return(Tag(JsonLoads(json_match), task_text, method),
                                 None, TRUE)
                     ELSE Return(None, Str("Expecting value"), TRUE)
                ELSE Return(None, Str("Could not parse JSON from response"), TRUE)

smart_decomposeNoKeyCheck(task_text, api_key, has_anthropic, env, outcome) ==
    IF ~has_anthropic
    THEN Return(None, Str("anthropic package not installed"), FALSE)
    ELSE CallProvider(task_text, "llm", outcome)

smart_decompose(task_text, api_key, has_anthropic, env, outcome) ==
    IF ~has_anthropic
    THEN Return(None, Str("anthropic package not installed"), FALSE)
    ELSE LET key == Or(api_key, env.ANTHROPIC_API_KEY)
         IN  IF ~Truthy(key)
             THEN Return(None, Str("No API key available"), FALSE)
             ELSE CallProvider(task_text, "llm", outcome)

openai_decompose(task_text, api_key, has_openai, env, outcome) ==
    IF ~has_openai
    THEN Return(None, Str("openai package not installed"), FALSE)
    ELSE LET key == Or(api_key, env.OPENAI_API_KEY)
         IN  IF ~Truthy(key)
             THEN Return(None, Str("No OpenAI API key available"), FALSE)
             ELSE CallProvider(task_text, "openai", outcome)

\* ------------------------------------------------------------------------
\* format_output: whether rendering raises
\* ------------------------------------------------------------------------
\* json.dumps renders None and any dict; the pretty branch subscripts
\* result['original_task'] and every subtask's st['id'], st['description']
FormatRaisesStrict(res, format_type) ==
    IF format_type = "json" THEN FALSE
    ELSE \/ res = None
         \/ "critical_path" \notin DOMAIN res
         \/ "risks" \notin DOMAIN res
         \/ /\ "subtasks" \in DOMAIN res
            /\ \E k \in 1..Len(res.subtasks) :
                  ~({"id", "description", "tools_needed"}
                        \subseteq DOMAIN res.subtasks[k])

FormatRaises(res, format_type) ==
    IF format_type = "json" THEN FALSE
    ELSE \/ res = None
         \/ /\ "subtasks" \in DOMAIN res
            /\ \E k \in 1..Len(res.subtasks) :
                  ~({"id", "description"} \subseteq DOMAIN res.subtasks[k])

\* ------------------------------------------------------------------------
\* format_output, pretty branch: the lines joined by "\n", each line as its
\* kind and the value it shows
\* ------------------------------------------------------------------------
Line(kind, of) == [kind |-> kind, of |-> of]

\* d.get(k, default)
Get(d, k, default) == IF k \in DOMAIN d THEN d[k] ELSE default

\* truth value of d.get(k) for a str or list value
GetTruthy(d, k) == k \in DOMAIN d /\ Len(d[k]) > 0

\* lines 201-210: the lines of one subtask
SubtaskLines(st) ==
    << Line("blank", ""),
       [kind |-> "subtask", of |-> st.id,
        para |-> IF Get(st, "can_parallelize", FALSE) THEN "par" ELSE "seq",
        description |-> st.description],
       [kind |-> "detail", of |-> Get(st, "domain", "?"),
        minutes |-> IF "estimated_minutes" \in DOMAIN st
                    THEN ToString(st.estimated_minutes) ELSE "?",
        after |-> Get(st, "dependencies", <<>>)] >>
    \o IF GetTruthy(st, "tools_needed")
       THEN << Line("tools", st.tools_needed) >> ELSE <<>>

\* lines 200-210: for st in result.get("subtasks", [])
RECURSIVE AllSubtaskLines(_)
AllSubtaskLines(subtasks) ==
    IF subtasks = <<>> THEN <<>>
    ELSE SubtaskLines(Head(subtasks)) \o AllSubtaskLines(Tail(subtasks))

\* lines 217-222: the risks section
RiskLines(risks) ==
    << Line("blank", ""), Line("risks", "") >>
    \o [k \in 1..Len(risks) |-> Line("risk", risks[k])]

\* lines 188-229
PrettyLines(res) ==
    << Line("title", ""),
       Line("blank", ""),
       Line("task", res.original_task),
       Line("blank", ""),
       Line("complexity", Get(res, "complexity", "unknown")),
       Line("time", IF "total_estimated_minutes" \in DOMAIN res
                    THEN ToString(res.total_estimated_minutes) ELSE "?"),
       Line("method", Get(res, "method", "unknown")),
       Line("blank", ""),
       Line("subtasks", "") >>
    \o AllSubtaskLines(Get(res, "subtasks", <<>>))
    \o (IF GetTruthy(res, "critical_path")
        THEN << Line("blank", ""), Line("critical_path", res.critical_path) >>
        ELSE <<>>)
    \o (IF GetTruthy(res, "risks") THEN RiskLines(res.risks) ELSE <<>>)
    \o (IF GetTruthy(res, "recommendation")
        THEN << Line("blank", ""), Line("recommendation", res.recommendation) >>
        ELSE <<>>)

\* ------------------------------------------------------------------------
\* format_output, json branch: json.dumps(result, indent=2) as JSON tokens.
\* Keys are written in one fixed order (a dict equals its reordering).
\* ------------------------------------------------------------------------
Tok(t, v) == [t |-> t, v |-> v]

PlanKeyOrder ==
    << "original_task", "subtasks", "complexity", "total_estimated_minutes",
       "critical_path", "risks", "recommendation", "method" >>

SubtaskKeyOrder ==
    << "id", "description", "domain", "estimated_minutes", "dependencies",
       "can_parallelize", "tools_needed" >>

StrKeys ==
    {"original_task", "complexity", "recommendation", "method", "id",
     "description", "domain"}
NumKeys == {"total_estimated_minutes", "estimated_minutes"}
BoolKeys == {"can_parallelize"}
StrListKeys == {"dependencies", "critical_path", "risks", "tools_needed"}

\* the items of a container, separated by "," and a line break
RECURSIVE JoinItemsDropLast(_)
JoinItemsDropLast(items) ==
    IF Len(items) <= 1 THEN <<>>
    ELSE IF Len(items) = 2 THEN Head(items)
    ELSE Head(items) \o << Tok(",", 0), Tok("nl", 0) >>
                    \o JoinItemsDropLast(Tail(items))

RECURSIVE JoinItems(_)
JoinItems(items) ==
    IF items = <<>> THEN <<>>
    ELSE IF Len(items) = 1 THEN Head(items)
    ELSE Head(items) \o << Tok(",", 0), Tok("nl", 0) >> \o JoinItems(Tail(items))

\* a list or dict: "[]" when empty, else one item per line
Container(open, close, items) ==
    IF items = <<>> THEN << Tok(open, 0), Tok(close, 0) >>
    ELSE << Tok(open, 0), Tok("nl", 0) >> \o JoinItems(items)
            \o << Tok("nl", 0), Tok(close, 0) >>

\* the keys of d, in the order of the sequence order
KeysInOrder(d, order) == SelectSeq(order, LAMBDA k : k \in DOMAIN d)

RECURSIVE DumpDict(_, _)
RECURSIVE DumpValue(_, _)

DumpValue(k, v) ==
    IF k \in StrKeys THEN << Tok("str", v) >>
    ELSE IF k \in NumKeys THEN << Tok("num", v) >>
    ELSE IF k \in BoolKeys THEN << Tok(IF v THEN "true" ELSE "false", 0) >>
    ELSE IF k \in StrListKeys
         THEN Container("[", "]", [i \in 1..Len(v) |-> << Tok("str", v[i]) >>])
    ELSE Container("[", "]",
                   [i \in 1..Len(v) |-> DumpDict(v[i], SubtaskKeyOrder)])

DumpDict(d, order) ==
    LET keys == KeysInOrder(d, order)
    IN  Container("{", "}",
                  [i \in 1..Len(keys) |->
                      << Tok("str", keys[i]), Tok(":", 0) >>
                          \o DumpValue(keys[i], d[keys[i]])])

\* json.dumps(result, indent=2)
JsonDumps(res) ==
    IF res = None THEN << Tok("null", 0) >> ELSE DumpDict(res, PlanKeyOrder)

\* lines 182-229; defined when FormatRaises is false
format_output(res, format_type) ==
    IF format_type = "json" THEN JsonDumps(res) ELSE PrettyLines(res)

\* ------------------------------------------------------------------------
\* Inputs: task texts, command lines, environments
\* ------------------------------------------------------------------------
Pieces ==
    { <<"b", "u", "i", "l", "d", " ", "a", "p", "i">>,
      <<"f", "i", "n", "d", " ", "i", "t">>,
      <<"f", "i", "x">>,
      <<"a", "b", "c", "d", "e">>,
      <<"a", "b", "c", "d", "e", "f">>,
      <<" ", "a", "n", "d", " ">>,
      <<",", " ", "t", "h", "e", "n", " ">>,
      <<",", "p", "l", "u", "s", " ">>,
      <<",", " ", "w", "i", "t", "h", " ">>,
      <<" ", "A", "N", "D", " ">>,
      <<" ", " ">>,
      <<"a", "n", "d">> }

ChainSegments ==
    { <<"b", "u", "i", "l", "d", " ", "a", "p", "i">>,
      <<"s", "e", "l", "l", " ", "i", "t", " ", "n", "o", "w">>,
      <<"a", "b", "c", "d", "e">>,
      <<"a", "b", "c", "d", "e", "f">> }

ChainSeparators ==
    { <<" ", "a", "n", "d", " ">>,
      <<",", " ", "t", "h", "e", "n", " ">>,
      <<",", "p", "l", "u", "s", " ">> }

RECURSIVE Concat(_)
Concat(ps) == IF ps = <<>> THEN <<>> ELSE Head(ps) \o Concat(Tail(ps))

\* texts assembled from up to MaxPieces pieces
FreeTexts ==
    {Concat(ps) : ps \in UNION {[1..k -> Pieces] : k \in 1..MaxPieces}}

\* seg sep seg ... seg with n segments
RECURSIVE ChainText(_, _, _)
ChainText(n, seg, sep) ==
    IF n = 1 THEN seg ELSE ChainText(n - 1, seg, sep) \o sep \o seg

ChainTexts ==
    {ChainText(n, seg, sep) :
        n \in 1..MaxChain, seg \in ChainSegments, sep \in ChainSeparators}

\* two different segments around one separator
MixedTexts ==
    {a \o sep \o b :
        a \in ChainSegments, b \in ChainSegments, sep \in ChainSeparators}

\* the example task of the usage text's kind: three clauses, one ", and"
ScenarioA ==
    <<"B", "u", "i", "l", "d", " ", "a", " ", "t", "r", "a", "d", "i", "n",
      "g", " ", "b", "o", "t", " ", "t", "h", "a", "t", " ", "f", "e", "t",
      "c", "h", "e", "s", " ", "p", "r", "i", "c", "e", "s", ",", " ", "c",
      "a", "l", "c", "u", "l", "a", "t", "e", "s", " ", "s", "i", "g", "n",
      "a", "l", "s", ",", " ", "a", "n", "d", " ", "p", "l", "a", "c", "e",
      "s", " ", "o", "r", "d", "e", "r", "s">>

\* a segment too short to be usable that carries a keyword of the first domain
ShortSegment == <<"b", "u", "y">>

\* one usable segment beside the short one
LoneTexts ==
    {a \o sep \o ShortSegment : a \in ChainSegments, sep \in ChainSeparators}
    \cup {ShortSegment \o sep \o a :
            a \in ChainSegments, sep \in ChainSeparators}

\* connectives the pattern of line 152 does not list, or spells otherwise
OtherConnectives ==
    { <<" ", "A", "N", "D", " ">>,
      <<",", " ", "w", "i", "t", "h", " ">>,
      <<",", " ", "T", "h", "e", "n", " ">>,
      <<",", "w", "i", "t", "h">> }

\* segments whose keywords are in upper case
UpperSegments ==
    { <<"S", "E", "L", "L", " ", "A", "P", "I">>,
      <<"B", "u", "i", "l", "d", " ", "A", "P", "I">> }

\* two segments around a connective that is not in the pattern, and segments
\* in upper case around one that is
EdgeTexts ==
    {a \o sep \o b :
        a \in ChainSegments, b \in ChainSegments, sep \in OtherConnectives}
    \cup {a \o sep \o b :
            a \in UpperSegments, b \in ChainSegments \cup UpperSegments,
            sep \in ChainSeparators}

Texts ==
    FreeTexts \cup ChainTexts \cup MixedTexts \cup {ScenarioA}
    \cup LoneTexts \cup EdgeTexts

\* the task texts tried with --smart
SmartTexts ==
    { <<"f", "i", "x">>,
      <<"b", "u", "i", "l", "d", " ", "a", "p", "i", " ", "a", "n", "d", " ", "s", "e", "l", "l", " ", "i", "t", " ", "n", "o", "w">> }

Keys == {None, Str(""), Str("sk")}

Environs == [ANTHROPIC_API_KEY : Keys, OPENAI_API_KEY : Keys]

\* ------------------------------------------------------------------------
\* main
\* ------------------------------------------------------------------------
VARIABLES
    pc,             \* the statement of main that runs next
    args,           \* argparse namespace: task, smart, format, api_key
    HAS_ANTHROPIC,  \* import anthropic succeeded
    HAS_OPENAI,     \* import openai succeeded
    environ,        \* os.environ, the two credentials
    result,         \* main's local: a Plan or None
    error,          \* main's local: error of the primary attempt
    error2,         \* main's local: error of the secondary attempt
    attempts,       \* history: the tiers invoked so far, in order
    output,         \* what main has printed last
    printed         \* the text of the final print(format_output(...))

vars == << pc, args, HAS_ANTHROPIC, HAS_OPENAI, environ, result, error,
           error2, attempts, output, printed >>

ArgsSmart ==
    [task : {None, Str(<<>>)} \cup {Str(x) : x \in SmartTexts},
     smart : {TRUE}, format : {"json", "pretty"},
     api_key : {None, Str("sk")}]

ArgsHeuristic ==
    [task : {None, Str(<<>>)} \cup {Str(x) : x \in Texts},
     smart : {FALSE}, format : {"json", "pretty"},
     api_key : {None}]

Init ==
    /\ pc = "parse_args"
    /\ \/ /\ args \in ArgsSmart
          /\ HAS_ANTHROPIC \in BOOLEAN
          /\ HAS_OPENAI \in BOOLEAN
          /\ environ \in Environs
       \/ /\ args \in ArgsHeuristic
          /\ HAS_ANTHROPIC \in BOOLEAN
          /\ HAS_OPENAI = HAS_ANTHROPIC
          /\ environ \in {[ANTHROPIC_API_KEY |-> None, OPENAI_API_KEY |-> None],
                          [ANTHROPIC_API_KEY |-> Str("sk"),
                           OPENAI_API_KEY |-> Str("sk")]}
    /\ result = None
    /\ error = None
    /\ error2 = None
    /\ attempts = <<>>
    /\ output = "nothing"
    /\ printed = <<>>

\* an exists-a-parseable-object test of a response, independent of the regex
ContainsObject(resp) ==
    \E i \in 1..Len(resp) : \E j \in i..Len(resp) :
        JsonValid(SubSeq(resp, i, j))

\* history record of one tier's invocation
Attempt(tier, ret, outcome) ==
    [tier      |-> tier,
     called    |-> ret.called,
     kind      |-> IF ret.called THEN outcome.kind ELSE "none",
     parseable |-> ret.called /\ outcome.kind = "text"
                              /\ ContainsObject(outcome.text),
     payload   |-> IF ret.called /\ outcome.kind = "text"
                      /\ JsonValid(JsonMatch(outcome.text))
                   THEN JsonLoads(JsonMatch(outcome.text)) ELSE None,
     ok        |-> ret.result # None]

\* lines 248 and 260: if args.smart: ... else: ...
ModeEntryAlwaysSmart(smart) == "smart_decompose"

ModeEntry(smart) == IF smart THEN "smart_decompose" ELSE "rule_based"

\* line 240: if not args.task:
NoTaskNoneOnly(task) == task = None

NoTask(task) == ~Truthy(task)

\* lines 238-248: parse the command line, print the usage or pick the mode
ParseArgs ==
    /\ pc = "parse_args"
    /\ IF NoTask(args.task)
       THEN pc' = "done" /\ output' = "usage"
       ELSE /\ pc' = ModeEntry(args.smart)
            /\ output' = output
    /\ UNCHANGED << args, HAS_ANTHROPIC, HAS_OPENAI, environ, result, error,
                    error2, attempts, printed >>

\* line 251: if error:
PrimaryFailedAlways(err) == TRUE

PrimaryFailed(err) == Truthy(err)

\* line 256: if error2:
SecondaryFailed(err) == Truthy(err)

\* lines 250-254: result, error = smart_decompose(args.task, args.api_key)
TryAnthropic ==
    /\ pc = "smart_decompose"
    /\ \E outcome \in Outcomes :
         LET ret == smart_decompose(args.task.str, args.api_key,
                                    HAS_ANTHROPIC, environ, outcome)
         IN  /\ attempts' = Append(attempts, Attempt("primary", ret, outcome))
             /\ IF ret.raised
                THEN /\ pc' = "aborted"
                     /\ output' = "traceback"
                     /\ UNCHANGED << result, error >>
                ELSE /\ result' = ret.result
                     /\ error' = ret.error
                     /\ IF PrimaryFailed(ret.error)
                        THEN pc' = "openai_decompose" /\ output' = "Trying OpenAI..."
                        ELSE pc' = "format_output" /\ output' = output
    /\ UNCHANGED << args, HAS_ANTHROPIC, HAS_OPENAI, environ, error2, printed >>

\* lines 255-258: result, error2 = openai_decompose(args.task)
TryOpenAI ==
    /\ pc = "openai_decompose"
    /\ \E outcome \in Outcomes :
         LET ret == openai_decompose(args.task.str, None,
                                     HAS_OPENAI, environ, outcome)
         IN  /\ attempts' = Append(attempts, Attempt("secondary", ret, outcome))
             /\ IF ret.raised
                THEN /\ pc' = "aborted"
                     /\ output' = "traceback"
                     /\ UNCHANGED << result, error2 >>
                ELSE /\ result' = ret.result
                     /\ error2' = ret.error
                     /\ IF SecondaryFailed(ret.error)
                        THEN /\ pc' = "rule_based"
                             /\ output' = "Falling back to rule-based..."
                        ELSE pc' = "format_output" /\ output' = output
    /\ UNCHANGED << args, HAS_ANTHROPIC, HAS_OPENAI, environ, error, printed >>

\* lines 259 and 261: result = rule_based_decompose(args.task)
RuleBased ==
    /\ pc = "rule_based"
    /\ result' = rule_based_decompose(args.task.str)
    /\ attempts' = Append(attempts,
                          [tier |-> "heuristic", called |-> FALSE,
                           kind |-> "none", parseable |-> FALSE,
                           payload |-> None, ok |-> TRUE])
    /\ pc' = "format_output"
    /\ UNCHANGED << args, HAS_ANTHROPIC, HAS_OPENAI, environ, error, error2,
                    output, printed >>

\* line 263: print(format_output(result, args.format))
Format ==
    /\ pc = "format_output"
    /\ IF FormatRaises(result, args.format)
       THEN pc' = "aborted" /\ output' = "traceback" /\ printed' = printed
       ELSE /\ pc' = "done"
            /\ output' = "plan"
            /\ printed' = format_output(result, args.format)
    /\ UNCHANGED << args, HAS_ANTHROPIC, HAS_OPENAI, environ, result, error,
                    error2, attempts >>

Next ==
    \/ ParseArgs
    \/ TryAnthropic
    \/ TryOpenAI
    \/ RuleBased
    \/ Format

Spec == Init /\ [][Next]_vars

\* ------------------------------------------------------------------------
\* rule_based_decompose called on its own, on any text, the empty one included
\* ------------------------------------------------------------------------
InitFn ==
    /\ pc = "call"
    /\ args \in [task : {Str(<<>>)} \cup {Str(x) : x \in Texts},
                 smart : {FALSE}, format : {"json", "pretty"},
                 api_key : {None}]
    /\ HAS_ANTHROPIC = FALSE
    /\ HAS_OPENAI = FALSE
    /\ environ = [ANTHROPIC_API_KEY |-> None, OPENAI_API_KEY |-> None]
    /\ result = None
    /\ error = None
    /\ error2 = None
    /\ attempts = <<>>
    /\ output = "nothing"
    /\ printed = <<>>

\* lines 132-180: the call and its return value
CallRuleBased ==
    /\ pc = "call"
    /\ result' = rule_based_decompose(args.task.str)
    /\ attempts' = Append(attempts,
                          [tier |-> "heuristic", called |-> FALSE,
                           kind |-> "none", parseable |-> FALSE,
                           payload |-> None, ok |-> TRUE])
    /\ pc' = "returned"
    /\ UNCHANGED << args, HAS_ANTHROPIC, HAS_OPENAI, environ, error, error2,
                    output, printed >>

NextFn == CallRuleBased

SpecFn == InitFn /\ [][NextFn]_vars

\* ------------------------------------------------------------------------
\* Properties
\* ------------------------------------------------------------------------
TierOrder == << "primary", "secondary", "heuristic" >>

Last == attempts[Len(attempts)]

\* the heuristic tier has produced main's result
HeuristicRan == attempts # <<>> /\ Last.tier = "heuristic"

\* main is about to hand result to format_output, or has printed it
AtFormatter == pc = "format_output"

TierOk(tier) ==
    \E i \in 1..Len(attempts) : attempts[i].tier = tier /\ attempts[i].ok

\* C1: with --smart the tiers are attempted in the order primary, secondary,
\* heuristic; a tier is attempted only after every earlier tier failed, and
\* after a tier succeeded no later tier is attempted.
C1_FixedOrderStopAtSuccess ==
    args.smart =>
        /\ Len(attempts) <= Len(TierOrder)
        /\ \A i \in 1..Len(attempts) : attempts[i].tier = TierOrder[i]
        /\ \A i \in 1..(Len(attempts) - 1) : ~attempts[i].ok

C1_Witness ==
    /\ args.smart
    /\ pc = "format_output"
    /\ Len(attempts) = 3
    /\ attempts[2].called
    /\ Last.tier = "heuristic"

\* C2 (as claimed): with --smart and a non-empty task, whatever error value a
\* failed provider attempt reports, the value handed to format_output is a
\* Plan, never None, and exactly one tier produced it.
C2_FormatterAlwaysGetsPlan ==
    (args.smart /\ AtFormatter) =>
        /\ result # None
        /\ Cardinality({i \in 1..Len(attempts) : attempts[i].ok}) = 1

\* C3: a Plan that reaches the formatter has method llm iff the primary
\* provider succeeded, openai iff the primary failed and the secondary
\* succeeded, rule-based otherwise; a method in the provider's payload is
\* overwritten.
C3_MethodIdentifiesTier ==
    (AtFormatter /\ result # None) =>
        /\ "method" \in DOMAIN result
        /\ result.method \in {"llm", "openai", "rule-based"}
        /\ (result.method = "llm") <=> TierOk("primary")
        /\ (result.method = "openai") <=>
              (~TierOk("primary") /\ TierOk("secondary"))
        /\ (result.method = "rule-based") <=>
              (~TierOk("primary") /\ ~TierOk("secondary"))

C3_Witness ==
    /\ AtFormatter
    /\ Len(attempts) = 2
    /\ Last.payload # None
    /\ "method" \in DOMAIN Last.payload
    /\ Last.payload.method = "rule-based"
    /\ result.method = "openai"

\* C4: for a non-empty text rule_based_decompose returns a Plan with at least
\* one subtask.
C4_AtLeastOneSubtask ==
    (HeuristicRan /\ Len(args.task.str) >= 1) =>
        /\ result # None
        /\ "subtasks" \in DOMAIN result
        /\ Len(result.subtasks) >= 1

C4_Witness ==
    /\ HeuristicRan
    /\ Len(args.task.str) >= 1
    /\ Parts(args.task.str) = <<>>
    /\ Len(result.subtasks) = 3

\* the sum of the estimates of the first k subtasks
RECURSIVE EstimateUpTo(_, _)
EstimateUpTo(subtasks, k) ==
    IF k = 0 THEN 0
    ELSE subtasks[k].estimated_minutes + EstimateUpTo(subtasks, k - 1)

\* C5: total_estimated_minutes of a heuristic Plan is the sum of its
\* subtasks' estimated_minutes, in the per-segment and the template branch.
C5_TotalIsSum ==
    HeuristicRan =>
        result.total_estimated_minutes
            = EstimateUpTo(result.subtasks, Len(result.subtasks))

C5_Witness ==
    /\ HeuristicRan
    /\ Len(result.subtasks) = 4
    /\ result.subtasks[1].id = "task_1"
    /\ result.total_estimated_minutes = 60

\* C6: in a heuristic Plan every dependency of a subtask is the id of a
\* subtask strictly earlier in the sequence (no self, forward or dangling
\* reference, hence no cycle).
C6_DependenciesPointBack ==
    HeuristicRan =>
        \A k \in 1..Len(result.subtasks) :
            \A d \in 1..Len(result.subtasks[k].dependencies) :
                \E j \in 1..(k - 1) :
                    result.subtasks[j].id = result.subtasks[k].dependencies[d]

C6_Witness ==
    /\ HeuristicRan
    /\ Len(result.subtasks) >= 4
    /\ result.subtasks[4].id = "task_4"
    /\ result.subtasks[4].dependencies = << "task_3" >>

\* C7 (as claimed): the complexity of a heuristic Plan with n subtasks is
\* simple for n <= 2, medium for 3 <= n <= 5, complex for n >= 6.
C7_ClaimedThresholds ==
    HeuristicRan =>
        LET n == Len(result.subtasks)
        IN  result.complexity =
                IF n <= 2 THEN "simple"
                ELSE IF n <= 5 THEN "medium" ELSE "complex"

\* C7 (amended): the complexity of a heuristic Plan with n subtasks is simple
\* for n <= 3, medium for 4 <= n <= 6, complex for n >= 7.
C7_CodeThresholds ==
    HeuristicRan =>
        LET n == Len(result.subtasks)
        IN  /\ (n <= 3) => result.complexity = "simple"
            /\ (4 <= n /\ n <= 6) => result.complexity = "medium"
            /\ (n >= 7) => result.complexity = "complex"

C7_Witness ==
    /\ HeuristicRan
    /\ Len(result.subtasks) >= 7
    /\ result.complexity = "complex"

\* no credential for either provider: no --api-key and neither variable set
NoCredentials ==
    /\ ~Truthy(args.api_key)
    /\ ~Truthy(environ.ANTHROPIC_API_KEY)
    /\ ~Truthy(environ.OPENAI_API_KEY)

\* C8: with --smart and no credential for either provider, both provider
\* attempts fail without a provider call and the final Plan is rule-based.
C8_NoCredentialsFallsBack ==
    (args.smart /\ NoCredentials) =>
        /\ \A i \in 1..Len(attempts) :
              attempts[i].tier \in {"primary", "secondary"} =>
                  ~attempts[i].called /\ ~attempts[i].ok
        /\ pc # "aborted"
        /\ (AtFormatter \/ output = "plan") =>
              /\ Len(attempts) = 3
              /\ Truthy(error) /\ Truthy(error2)
              /\ result # None
              /\ result.method = "rule-based"

C8_Witness ==
    /\ args.smart
    /\ NoCredentials
    /\ HAS_ANTHROPIC /\ HAS_OPENAI
    /\ pc = "done"
    /\ output = "plan"
    /\ result.method = "rule-based"

\* C9: when the primary provider answers with a text holding no parseable
\* JSON object the attempt fails with no Plan, the secondary provider is the
\* next tier attempted, and no tier is attempted twice in one invocation.
C9_UnparseableAdvancesOnce ==
    /\ \A i, j \in 1..Len(attempts) :
          attempts[i].tier = attempts[j].tier => i = j
    /\ ( /\ attempts # <<>>
         /\ attempts[1].tier = "primary"
         /\ attempts[1].kind = "text"
         /\ ~attempts[1].parseable )
       => /\ ~attempts[1].ok
          /\ Len(attempts) = 1 => (pc = "openai_decompose" /\ result = None)
          /\ Len(attempts) >= 2 => attempts[2].tier = "secondary"

C9_Witness ==
    /\ Len(attempts) >= 2
    /\ attempts[1].tier = "primary"
    /\ attempts[1].kind = "text"
    /\ ~attempts[1].parseable
    /\ attempts[2].tier = "secondary"

\* a payload of the shape the prompt asks for: a subtasks list whose items
\* have an id and a description
PlanShaped(payload) ==
    /\ "subtasks" \in DOMAIN payload
    /\ \A k \in 1..Len(payload.subtasks) :
          {"id", "description"} \subseteq DOMAIN payload.subtasks[k]

\* C10 (as claimed): a provider attempt whose response is a well-formed JSON
\* object not of the Plan shape is a failed attempt: it returns no Plan and
\* the next tier is attempted.
C10_MisshapenPayloadFails ==
    \A i \in 1..Len(attempts) :
        (attempts[i].payload # None /\ ~PlanShaped(attempts[i].payload)) =>
            /\ ~attempts[i].ok
            /\ (i = Len(attempts)) => pc # "format_output"

\* whether the subtasks form the linear chain: the first has no dependency,
\* every later one depends on exactly its predecessor
LinearChain(subtasks) ==
    \A k \in 1..Len(subtasks) :
        subtasks[k].dependencies =
            IF k = 1 THEN <<>> ELSE << subtasks[k - 1].id >>

RanOn(text) == HeuristicRan /\ ~args.smart /\ args.task = Str(text)

\* C11 (as claimed): in heuristic mode the Scenario A text is split into at
\* least 3 segments and gives a Plan with at least 3 subtasks in a linear
\* chain, complexity medium and method rule-based.
C11_ScenarioAClaimed ==
    RanOn(ScenarioA) =>
        /\ Len(Parts(ScenarioA)) >= 3
        /\ Len(result.subtasks) >= 3
        /\ LinearChain(result.subtasks)
        /\ result.complexity = "medium"
        /\ result.method = "rule-based"

\* C11 (amended): in heuristic mode the Scenario A text is split into exactly
\* 2 segments (at ", and" only) and gives a Plan with 2 subtasks in a linear
\* chain, complexity simple and method rule-based.
C11_ScenarioA ==
    RanOn(ScenarioA) =>
        /\ Len(Parts(ScenarioA)) = 2
        /\ Len(result.subtasks) = 2
        /\ result.subtasks[1].id = "task_1"
        /\ result.subtasks[2].id = "task_2"
        /\ LinearChain(result.subtasks)
        /\ result.complexity = "simple"
        /\ result.method = "rule-based"

C11_Witness ==
    /\ RanOn(ScenarioA)
    /\ pc = "done"
    /\ Len(result.subtasks) = 2
    /\ result.subtasks[2].dependencies = << "task_1" >>

Returned(text) == pc = "returned" /\ args.task = Str(text)

Ids(subtasks) == [k \in 1..Len(subtasks) |-> subtasks[k].id]

\* C12 (as claimed): for the empty string the template branch is taken, verify
\* is the last subtask, the total is at least 5, and verify is the only
\* mandatory stage: a text in which nothing is detected gets verify alone.
C12_EmptyTextClaimed ==
    Returned(<<>>) =>
        /\ Parts(<<>>) = <<>>
        /\ result.subtasks[Len(result.subtasks)].id = "verify"
        /\ result.total_estimated_minutes >= 5
        /\ get_domain(<<>>) = "unknown" => Ids(result.subtasks) = << "verify" >>

\* C12 (amended): for the empty string the template branch is taken and the
\* Plan is the three stages plan, execute, verify, all of them always
\* present, verify last, with a total of 50 (>= 5) minutes.
C12_EmptyText ==
    Returned(<<>>) =>
        /\ Parts(<<>>) = <<>>
        /\ Ids(result.subtasks) = << "plan", "execute", "verify" >>
        /\ result.subtasks[Len(result.subtasks)].id = "verify"
        /\ result.total_estimated_minutes = 50
        /\ result.total_estimated_minutes >= 5

C12_Witness ==
    /\ Returned(<<>>)
    /\ Len(result.subtasks) = 3
    /\ result.subtasks[3].id = "verify"
    /\ result.method = "rule-based"

\* the last tier invoked was a provider and it returned a Plan
ProviderSucceeded ==
    /\ attempts # <<>>
    /\ Last.tier \in {"primary", "secondary"}
    /\ Last.ok

TagKeys == {"original_task", "method"}

\* C13: the Plan of any tier has original_task equal to the caller's text,
\* also when the provider's payload holds an original_task of its own.
C13_OriginalTaskVerbatim ==
    (AtFormatter /\ result # None) =>
        /\ "original_task" \in DOMAIN result
        /\ result.original_task = args.task.str

C13_Witness ==
    /\ AtFormatter
    /\ ProviderSucceeded
    /\ "original_task" \in DOMAIN Last.payload
    /\ Last.payload.original_task # args.task.str
    /\ result.original_task = args.task.str

\* C14: a successful provider attempt returns the parsed payload with the two
\* keys original_task and method set; every other key keeps its value and no
\* other key is added.
C14_PayloadPlusTwoKeys ==
    ProviderSucceeded =>
        /\ Last.payload # None
        /\ DOMAIN result = DOMAIN Last.payload \cup TagKeys
        /\ \A k \in DOMAIN Last.payload \ TagKeys : result[k] = Last.payload[k]

C14_Witness ==
    /\ AtFormatter
    /\ ProviderSucceeded
    /\ Last.tier = "secondary"
    /\ DOMAIN Last.payload = {"subtasks"}
    /\ result.subtasks = Last.payload.subtasks
    /\ DOMAIN result = {"subtasks"} \cup TagKeys

\* C15: without --smart main calls rule_based_decompose directly and neither
\* provider function is called.
C15_HeuristicModeSkipsProviders ==
    ~args.smart =>
        /\ Len(attempts) <= 1
        /\ \A i \in 1..Len(attempts) :
              attempts[i].tier = "heuristic" /\ ~attempts[i].called
        /\ pc \notin {"smart_decompose", "openai_decompose"}
        /\ (AtFormatter \/ output = "plan") => HeuristicRan

C15_Witness ==
    /\ ~args.smart
    /\ HAS_ANTHROPIC
    /\ Truthy(environ.ANTHROPIC_API_KEY)
    /\ pc = "done"
    /\ output = "plan"
    /\ Len(attempts) = 1
    /\ result.method = "rule-based"

\* C16: the subtask ids of a heuristic Plan are pairwise distinct, in the
\* per-segment branch and in the template branch.
C16_IdsDistinct ==
    pc = "returned" =>
        \A i, j \in 1..Len(result.subtasks) :
            result.subtasks[i].id = result.subtasks[j].id => i = j

C16_Witness ==
    /\ pc = "returned"
    /\ Len(result.subtasks) = 5
    /\ Ids(result.subtasks)
          = << "task_1", "task_2", "task_3", "task_4", "task_5" >>

\* format_output has returned and its text was printed
Printed == pc = "done" /\ output = "plan"

\* the run ended in format_output raising
FormatFailed ==
    pc = "aborted" /\ (attempts = <<>> \/ Last.kind # "interrupt")

\* the Plan has none of the optional fields
OptionalAbsent(plan) ==
    /\ "critical_path" \notin DOMAIN plan
    /\ "risks" \notin DOMAIN plan
    /\ \A k \in 1..Len(plan.subtasks) :
          "tools_needed" \notin DOMAIN plan.subtasks[k]

Kinds(lines) == {lines[i].kind : i \in 1..Len(lines)}

\* C17: pretty formatting of a Plan (subtasks with id and description) whose
\* optional fields tools_needed, critical_path and risks are absent does not
\* fail; those sections are omitted and every other section is rendered.
C17_OptionalFieldsOmitted ==
    ( /\ args.format = "pretty"
      /\ result # None
      /\ PlanShaped(result)
      /\ OptionalAbsent(result) )
    => /\ ~FormatFailed
       /\ Printed =>
            /\ Kinds(printed) \cap {"tools", "critical_path", "risks", "risk"} = {}
            /\ {"title", "task", "complexity", "time", "method", "subtasks"}
                  \subseteq Kinds(printed)
            /\ \A k \in 1..Len(result.subtasks) :
                  \E i \in 1..(Len(printed) - 1) :
                      /\ printed[i].kind = "subtask"
                      /\ printed[i].of = result.subtasks[k].id
                      /\ printed[i + 1].kind = "detail"
            /\ ("recommendation" \in Kinds(printed))
                  <=> GetTruthy(result, "recommendation")

C17_Witness ==
    /\ Printed
    /\ args.format = "pretty"
    /\ HeuristicRan
    /\ OptionalAbsent(result)
    /\ Len(result.subtasks) = 2
    /\ printed[Len(printed)].kind = "recommendation"

\* ------------------------------------------------------------------------
\* Reading the json output back: a JSON parser over the tokens
\* ------------------------------------------------------------------------
RECURSIVE ParseValue(_, _)
RECURSIVE ParseList(_, _, _)
RECURSIVE ParseDict(_, _, _)

\* the value starting at token i, and the position after it
ParseValue(toks, i) ==
    LET t == toks[i].t
    IN  CASE t = "nl"    -> ParseValue(toks, i + 1)
          [] t = "str"   -> [val |-> toks[i].v, next |-> i + 1]
          [] t = "num"   -> [val |-> toks[i].v, next |-> i + 1]
          [] t = "true"  -> [val |-> TRUE, next |-> i + 1]
          [] t = "false" -> [val |-> FALSE, next |-> i + 1]
          [] t = "["     -> ParseList(toks, i + 1, <<>>)
          [] t = "{"     -> ParseDict(toks, i + 1, <<>>)

ParseList(toks, i, acc) ==
    LET t == toks[i].t
    IN  IF t = "]" THEN [val |-> acc, next |-> i + 1]
        ELSE IF t \in {",", "nl"} THEN ParseList(toks, i + 1, acc)
        ELSE LET item == ParseValue(toks, i)
             IN  ParseList(toks, item.next, Append(acc, item.val))

ParseDict(toks, i, acc) ==
    LET t == toks[i].t
    IN  IF t = "}" THEN [val |-> acc, next |-> i + 1]
        ELSE IF t \in {",", "nl"} THEN ParseDict(toks, i + 1, acc)
        ELSE LET member == ParseValue(toks, i + 2)
             IN  ParseDict(toks, member.next, (toks[i].v :> member.val) @@ acc)

\* json.loads of the printed text
ParseJson(toks) == ParseValue(toks, 1).val

\* C18: for a Plan of rule_based_decompose, parsing the json output of
\* format_output gives back a Plan equal to the original: same subtask ids in
\* the same order, same dependencies, estimates, total, complexity, method.
C18_JsonRoundTrip ==
    (Printed /\ HeuristicRan /\ args.format = "json") =>
        LET back == ParseJson(printed)
        IN  /\ DOMAIN back = DOMAIN result
            /\ Len(back.subtasks) = Len(result.subtasks)
            /\ \A k \in 1..Len(result.subtasks) :
                  /\ back.subtasks[k].id = result.subtasks[k].id
                  /\ back.subtasks[k].dependencies
                        = result.subtasks[k].dependencies
                  /\ back.subtasks[k].estimated_minutes
                        = result.subtasks[k].estimated_minutes
            /\ back.total_estimated_minutes = result.total_estimated_minutes
            /\ back.complexity = result.complexity
            /\ back.method = result.method
            /\ back = result

C18_Witness ==
    /\ Printed
    /\ HeuristicRan
    /\ args.format = "json"
    /\ Len(result.subtasks) = 4
    /\ ParseJson(printed).subtasks[4].dependencies = << "task_3" >>

\* rule_based_decompose returned from its per-segment branch
PerSegment == pc = "returned" /\ Len(Parts(args.task.str)) >= 2

\* C19: with n >= 2 usable segments the Plan has n subtasks, one per segment
\* in segment order; the first has no dependency and the k-th depends on
\* exactly the (k-1)-th.
C19_OneSubtaskPerSegment ==
    PerSegment =>
        LET parts == Parts(args.task.str)
        IN  /\ Len(result.subtasks) = Len(parts)
            /\ \A k \in 1..Len(parts) :
                  /\ k <= Len(result.subtasks)
                  /\ result.subtasks[k].description = parts[k]
                  /\ result.subtasks[k].dependencies =
                        IF k = 1 THEN <<>>
                        ELSE << result.subtasks[k - 1].id >>

C19_Witness ==
    /\ PerSegment
    /\ Len(Parts(args.task.str)) = 3
    /\ Len(result.subtasks) = 3
    /\ result.subtasks[3].dependencies = << "task_2" >>
    /\ result.subtasks[3].id = "task_3"

\* C20 (as claimed): in the per-segment branch can_parallelize is true for
\* the first subtask and for a later subtask whose domain differs from its
\* predecessor's, false for a later subtask with its predecessor's domain.
C20_ParallelOnDomainSwitch ==
    PerSegment =>
        \A k \in 1..Len(result.subtasks) :
            result.subtasks[k].can_parallelize
                <=> (k = 1 \/ result.subtasks[k].domain
                                 # result.subtasks[k - 1].domain)

\* C20 (amended): in the per-segment branch can_parallelize is true for the
\* first subtask and false for every later subtask, whatever its domain.
C20_ParallelOnlyFirst ==
    PerSegment =>
        \A k \in 1..Len(result.subtasks) :
            result.subtasks[k].can_parallelize <=> (k = 1)

C20_Witness ==
    /\ PerSegment
    /\ result.subtasks[1].can_parallelize
    /\ result.subtasks[2].domain # result.subtasks[1].domain
    /\ ~result.subtasks[2].can_parallelize

\* rule_based_decompose returned from its template branch
TemplateBranch == pc = "returned" /\ Len(Parts(args.task.str)) <= 1

\* some keyword of the named domain occurs in the text, in any case
DomainMatched(text, name) ==
    \E d \in 1..Len(domains) :
        /\ domains[d].domain = name
        /\ AnyKeyword(Lower(text), domains[d].keywords)

WordFind      == <<"f", "i", "n", "d">>
WordBuild     == <<"b", "u", "i", "l", "d">>
WordCreate    == <<"c", "r", "e", "a", "t", "e">>
WordImplement == <<"i", "m", "p", "l", "e", "m", "e", "n", "t">>

ResearchDetected(text) ==
    DomainMatched(text, "research") \/ Contains(Lower(text), WordFind)

ImplementDetected(text) ==
    \/ DomainMatched(text, "coding")
    \/ \E w \in {WordBuild, WordCreate, WordImplement} :
          Contains(Lower(text), w)

Count(b) == IF b THEN 1 ELSE 0

\* C21 (as claimed): in the template branch verify is present and last, a
\* stage before it is present only if its trigger is detected (research: the
\* research domain or "find"; implement: a build/create/implement action or
\* the coding domain), and verify depends on exactly the last other stage
\* present (on nothing if there is none).
C21_OptionalStagesClaimed ==
    TemplateBranch =>
        LET st == result.subtasks
            n  == Len(st)
        IN  /\ n >= 1
            /\ st[n].id = "verify"
            /\ n - 1 <= Count(ResearchDetected(args.task.str))
                        + Count(ImplementDetected(args.task.str))
            /\ st[n].dependencies =
                  IF n = 1 THEN <<>> ELSE << st[n - 1].id >>

\* C21 (amended): in the template branch the Plan has the three stages plan,
\* execute, verify whatever the text contains; verify is last and depends on
\* exactly execute, execute on exactly plan, plan on nothing.
C21_FixedTemplate ==
    TemplateBranch =>
        LET st == result.subtasks
        IN  /\ Len(st) = 3
            /\ st[1].id = "plan" /\ st[1].dependencies = <<>>
            /\ st[2].id = "execute" /\ st[2].dependencies = << "plan" >>
            /\ st[3].id = "verify" /\ st[3].dependencies = << "execute" >>

C21_Witness ==
    /\ TemplateBranch
    /\ ~ResearchDetected(args.task.str)
    /\ ~ImplementDetected(args.task.str)
    /\ Len(Parts(args.task.str)) = 1
    /\ Len(result.subtasks) = 3
    /\ result.subtasks[1].id = "plan"

\* the estimate the claim gives a template stage: the research stage 10, the
\* closing verify stage 5, the stage between them 15
ClaimedEstimate(stage) ==
    IF stage.id = "verify" THEN 5
    ELSE IF stage.domain = "research" /\ stage.dependencies = <<>> THEN 10
    ELSE 15

\* C22 (as claimed): in a template Plan the estimates are research = 10,
\* implement = 15, verify = 5 minutes, and only a leading research stage has
\* can_parallelize = true.
C22_EstimatesClaimed ==
    TemplateBranch =>
        \A k \in 1..Len(result.subtasks) :
            LET stage == result.subtasks[k]
            IN  /\ stage.estimated_minutes = ClaimedEstimate(stage)
                /\ stage.can_parallelize
                      <=> (k = 1 /\ stage.domain = "research")

\* C22 (amended): in a template Plan the estimates are plan = 10,
\* execute = 30, verify = 10 minutes (50 in total), and can_parallelize is
\* true for the leading plan stage (domain research) and false for execute
\* and verify.
C22_TemplateEstimates ==
    TemplateBranch =>
        LET st == result.subtasks
        IN  /\ [k \in 1..Len(st) |-> st[k].estimated_minutes] = << 10, 30, 10 >>
            /\ [k \in 1..Len(st) |-> st[k].can_parallelize]
                  = << TRUE, FALSE, FALSE >>
            /\ st[1].domain = "research"
            /\ result.total_estimated_minutes = 50

C22_Witness ==
    /\ TemplateBranch
    /\ Len(args.task.str) > 0
    /\ result.subtasks[2].id = "execute"
    /\ result.subtasks[2].estimated_minutes = 30
    /\ result.subtasks[3].estimated_minutes = 10
    /\ result.subtasks[1].can_parallelize

\* the pieces whose trimmed length is at least min, trimmed, in order
RECURSIVE KeptFrom(_, _)
KeptFrom(pieces, min) ==
    IF pieces = <<>> THEN <<>>
    ELSE (IF Len(Strip(Head(pieces))) >= min
          THEN << Strip(Head(pieces)) >> ELSE <<>>)
         \o KeptFrom(Tail(pieces), min)

Descriptions(subtasks) ==
    [k \in 1..Len(subtasks) |-> subtasks[k].description]

\* the returned Plan is built from the pieces of trimmed length >= min: one
\* subtask per kept piece when there are two or more, the template otherwise
BuiltFromKept(min) ==
    LET kept == KeptFrom(ReSplit(args.task.str), min)
    IN  /\ Parts(args.task.str) = kept
        /\ IF Len(kept) >= 2
           THEN Descriptions(result.subtasks) = kept
           ELSE Ids(result.subtasks) = << "plan", "execute", "verify" >>

\* C23 (as claimed): each piece is trimmed; a trimmed piece shorter than 5
\* characters is discarded, one of 5 or more characters is a usable segment.
C23_ThresholdFiveClaimed ==
    (pc = "returned") => BuiltFromKept(5)

\* C23 (amended): each piece is trimmed; a trimmed piece of 5 or fewer
\* characters is discarded, one of 6 or more characters is a usable segment
\* (no usable segment is empty or starts or ends with white space).
C23_ThresholdSix ==
    (pc = "returned") =>
        /\ BuiltFromKept(6)
        /\ \A k \in 1..Len(Parts(args.task.str)) :
              LET p == Parts(args.task.str)[k]
              IN  Len(p) > 5 /\ p[1] \notin WS /\ p[Len(p)] \notin WS

C23_Witness ==
    /\ pc = "returned"
    /\ \E k \in 1..Len(ReSplit(args.task.str)) :
          Len(Strip(ReSplit(args.task.str)[k])) = 5
    /\ \E k \in 1..Len(ReSplit(args.task.str)) :
          Len(Strip(ReSplit(args.task.str)[k])) = 6
    /\ Len(Parts(args.task.str)) = 1
    /\ Len(Parts(args.task.str)[1]) = 6
    /\ result.subtasks[1].id = "plan"

Fold(c) == IF c \in DOMAIN UpperToLower THEN UpperToLower[c] ELSE c

\* the word stands at position j of the text, compared with or without case
WordIs(text, j, word, fold) ==
    /\ j + Len(word) - 1 <= Len(text)
    /\ \A x \in 1..Len(word) :
          (IF fold THEN Fold(text[j + x - 1]) ELSE text[j + x - 1]) = word[x]

AllWs(text, a, b) == \A x \in a..b : text[x] \in WS

\* white space runs from k up to, not including, e and no further
WsRunEnds(text, k, e) ==
    AllWs(text, k, e - 1) /\ (e > Len(text) \/ text[e] \notin WS)

\* a boundary occupies positions i..e-1: a comma, optional white space, one
\* of the comma connectives and the white space after it; or white space,
\* "and" or "then", and at least one white space after it
IsBoundary(text, i, e, fold, commaWords) ==
    \/ /\ text[i] = ","
       /\ \E j \in (i + 1)..Len(text) : \E w \in commaWords :
             /\ AllWs(text, i + 1, j - 1)
             /\ WordIs(text, j, w, fold)
             /\ e >= j + Len(w)
             /\ WsRunEnds(text, j + Len(w), e)
    \/ /\ text[i] \in WS
       /\ \E j \in (i + 1)..Len(text) : \E w \in {WordAnd, WordThen} :
             /\ AllWs(text, i, j - 1)
             /\ WordIs(text, j, w, fold)
             /\ e > j + Len(w)
             /\ WsRunEnds(text, j + Len(w), e)

BoundaryEnd(text, i, fold, commaWords) ==
    IF \E e \in (i + 1)..(Len(text) + 1) :
          IsBoundary(text, i, e, fold, commaWords)
    THEN CHOOSE e \in (i + 1)..(Len(text) + 1) :
            IsBoundary(text, i, e, fold, commaWords)
    ELSE 0

\* the pieces between the boundaries, found left to right from position i,
\* the current piece starting at s
RECURSIVE CutFrom(_, _, _, _, _)
CutFrom(text, i, s, fold, commaWords) ==
    IF i > Len(text) THEN << SubSeq(text, s, Len(text)) >>
    ELSE LET e == BoundaryEnd(text, i, fold, commaWords)
         IN  IF e # 0
             THEN << SubSeq(text, s, i - 1) >>
                  \o CutFrom(text, e, e, fold, commaWords)
             ELSE CutFrom(text, i + 1, s, fold, commaWords)

ClaimedPieces(text) ==
    CutFrom(text, 1, 1, TRUE, {WordAnd, WordThen, WordWith, WordPlus})

CodePieces(text) ==
    CutFrom(text, 1, 1, FALSE, {WordAnd, WordThen, WordPlus})

\* the returned Plan is what the usable ones of these pieces give
PlanBuiltFrom(pieces) ==
    LET kept == KeptFrom(pieces, 6)
    IN  IF Len(kept) >= 2
        THEN /\ Len(result.subtasks) = Len(kept)
             /\ \A k \in 1..Len(kept) :
                   result.subtasks[k].description = kept[k]
        ELSE result.subtasks[1].id = "plan"

\* C24 (as claimed): the text is cut at every boundary of the set {comma +
\* and / then / with / plus, bare " and ", bare " then "}, the connective
\* words matched without regard to case, and nowhere else.
C24_BoundariesClaimed ==
    (pc = "returned") =>
        /\ ReSplit(args.task.str) = ClaimedPieces(args.task.str)
        /\ PlanBuiltFrom(ClaimedPieces(args.task.str))

\* C24 (amended): the text is cut at every boundary of the set {comma + and /
\* then / plus, bare " and ", bare " then "}, the connective words matched in
\* lower case only, and nowhere else: " AND " and ", with " are not
\* boundaries.
C24_BoundariesCaseSensitive ==
    (pc = "returned") =>
        /\ ReSplit(args.task.str) = CodePieces(args.task.str)
        /\ PlanBuiltFrom(CodePieces(args.task.str))

C24_Witness ==
    /\ pc = "returned"
    /\ Len(ClaimedPieces(args.task.str)) = 2
    /\ Len(KeptFrom(ClaimedPieces(args.task.str), 6)) = 2
    /\ Len(ReSplit(args.task.str)) = 1
    /\ Contains(args.task.str, WordWith)
    /\ result.subtasks[1].id = "plan"

\* the keyword occurs in the segment, letters compared without regard to case
OccursFolded(seg, kw) == \E i \in 1..Len(seg) : WordIs(seg, i, kw, TRUE)

\* the rows of the keyword table with a keyword occurring in the segment
MatchingRows(seg) ==
    {d \in 1..Len(domains) :
        \E k \in 1..Len(domains[d].keywords) :
            OccursFolded(seg, domains[d].keywords[k])}

\* C25: the domain of a per-segment subtask is the domain of the first row of
\* the keyword table, in declaration order, with a keyword occurring in the
\* segment as a case-insensitive substring; it is unknown when no row has
\* one, and it is never missing.
C25_FirstMatchingDomain ==
    PerSegment =>
        \A k \in 1..Len(result.subtasks) :
            LET st   == result.subtasks[k]
                rows == MatchingRows(st.description)
            IN  /\ "domain" \in DOMAIN st
                /\ st.domain =
                      IF rows = {} THEN "unknown"
                      ELSE domains[Min(rows)].domain

C25_Witness ==
    /\ PerSegment
    /\ Cardinality(MatchingRows(result.subtasks[1].description)) = 2
    /\ get_domainCaseSensitive(result.subtasks[1].description) = "unknown"
    /\ result.subtasks[1].domain = "trading"
    /\ MatchingRows(result.subtasks[2].description) = {}
    /\ result.subtasks[2].domain = "unknown"

\* C26 (as claimed): the recommendation of a heuristic Plan with n subtasks
\* is "execute directly" for n <= 2, "execute sequentially" for 3 <= n <= 5,
\* "consider parallel sub-agents" for n >= 6.
C26_RecommendationByCount ==
    (pc = "returned") =>
        LET n == Len(result.subtasks)
        IN  result.recommendation =
                IF n <= 2 THEN "execute directly"
                ELSE IF n <= 5 THEN "execute sequentially"
                ELSE "consider parallel sub-agents"

\* C26 (amended): the recommendation of a heuristic Plan is the same fixed
\* sentence whatever the subtask count, and none of the three claimed ones.
C26_RecommendationFixed ==
    (pc = "returned") =>
        /\ result.recommendation =
              "Rule-based decomposition - consider using --smart for better results"
        /\ result.recommendation \notin
              {"execute directly", "execute sequentially",
               "consider parallel sub-agents"}

C26_Witness ==
    /\ pc = "returned"
    /\ Len(result.subtasks) >= 6
    /\ result.method = "rule-based"
    /\ result.recommendation = Recommendation

\* some provider call was interrupted while in flight
Interrupted == \E i \in 1..Len(attempts) : attempts[i].kind = "interrupt"

\* C27 (as claimed): an interrupt raised inside a provider call makes that
\* attempt a failed attempt: nothing of it is kept, main goes on to the next
\* tier and ends by printing a Plan.
C27_InterruptContinuesClaimed ==
    Interrupted =>
        /\ \A i \in 1..Len(attempts) :
              attempts[i].kind = "interrupt" => ~attempts[i].ok
        /\ pc \in {"openai_decompose", "rule_based", "format_output", "done"}
        /\ (pc = "done") => output = "plan"

\* C27 (amended): an interrupt raised inside a provider call is not caught:
\* it leaves the provider function and main, nothing of the attempt is kept
\* (result is still None), no later tier is attempted and no Plan is printed.
C27_InterruptAborts ==
    Interrupted =>
        /\ Last.kind = "interrupt"
        /\ \A i \in 1..(Len(attempts) - 1) : attempts[i].kind # "interrupt"
        /\ ~Last.ok
        /\ Last.tier \in {"primary", "secondary"}
        /\ pc = "aborted"
        /\ output = "traceback"
        /\ result = None
        /\ printed = <<>>

C27_Witness ==
    /\ Interrupted
    /\ Len(attempts) = 2
    /\ attempts[1].called
    /\ Last.tier = "secondary"
    /\ pc = "aborted"

\* C28: when main gets no task text (the argument absent or the empty
\* string), with or without --smart, no tier is invoked, format_output is not
\* called, no Plan is printed; main prints the usage text and returns.
C28_NoTaskOnlyUsage ==
    (args.task = None \/ args.task = Str(<<>>)) =>
        /\ attempts = <<>>
        /\ result = None
        /\ printed = <<>>
        /\ pc \in {"parse_args", "done"}
        /\ output \in {"nothing", "usage"}
        /\ (pc = "done") => output = "usage"

C28_Witness ==
    /\ args.task = Str(<<>>)
    /\ args.smart
    /\ HAS_ANTHROPIC
    /\ Truthy(environ.ANTHROPIC_API_KEY)
    /\ pc = "done"
    /\ output = "usage"

\* C29: a Plan returned by rule_based_decompose never has exactly one
\* subtask: its subtasks are either task_1..task_n for some n >= 2, or
\* exactly plan, execute, verify; so there are always at least 2.
C29_NeverOneSubtask ==
    (pc = "returned") =>
        LET n == Len(result.subtasks)
        IN  /\ n # 1
            /\ n >= 2
            /\ \/ /\ Len(Parts(args.task.str)) = n
                  /\ \A k \in 1..n :
                        result.subtasks[k].id = "task_" \o ToString(k)
               \/ /\ n = 3
                  /\ Len(Parts(args.task.str)) <= 1
                  /\ Ids(result.subtasks) = << "plan", "execute", "verify" >>

C29_Witness ==
    /\ pc = "returned"
    /\ Len(SegmentSubtasks(Parts(args.task.str))) = 1
    /\ Len(result.subtasks) = 3
    /\ \A k \in 1..3 : result.subtasks[k].id # "task_1"

\* the classification of a text: the first matching row's domain, or unknown
Classified(text) ==
    IF MatchingRows(text) = {} THEN "unknown"
    ELSE domains[Min(MatchingRows(text))].domain

\* rule_based_decompose returned for a text with exactly one usable segment
LoneSegment == pc = "returned" /\ Len(Parts(args.task.str)) = 1

\* C30: with exactly one usable segment the subtask built from it is not in
\* the Plan; the Plan is the chain plan -> execute -> verify, where execute's
\* domain is the classification of the whole input text, plan's is research
\* and verify's is devops.
C30_LoneSegmentDiscarded ==
    LoneSegment =>
        LET st == result.subtasks
        IN  /\ \A k \in 1..Len(st) :
                  /\ st[k].id # "task_1"
                  /\ st[k].description # Parts(args.task.str)[1]
            /\ Ids(st) = << "plan", "execute", "verify" >>
            /\ LinearChain(st)
            /\ st[1].domain = "research"
            /\ st[2].domain = Classified(args.task.str)
            /\ st[3].domain = "devops"

C30_Witness ==
    /\ LoneSegment
    /\ Len(ReSplit(args.task.str)) = 2
    /\ Classified(Parts(args.task.str)[1]) = "coding"
    /\ result.subtasks[2].id = "execute"
    /\ result.subtasks[2].domain = "trading"

====
